---- MODULE Spec2Model ----
(***************************************************************************)
(* Model of the notebook 01-ex1-simple.ipynb: a linear sequence of cells   *)
(* that downloads raw CSV/GeoJSON files, converts them to Parquet files in *)
(* six fixed folders, joins them in a scratch DuckDB database file,        *)
(* exports the joined table to Parquet, deletes the database file and then *)
(* queries the joined Parquet files.                                       *)
(*                                                                         *)
(* A Python cell that raises stops the run ("Run All" semantics).  A cell  *)
(* made only of "!" shell escapes never raises: a failing shell command    *)
(* leaves its exit status behind and the next cell runs.                   *)
(***************************************************************************)
EXTENDS Integers, Sequences, FiniteSets, TLC

\* ---------------------------------------------------------------- bounds
MaxRows == 2        \* rows of obs.csv, baseline.csv, sim.csv range over 0..MaxRows
MaxMissing == 1     \* files a partial download may leave out
MaxRuns == 2        \* runs of the notebook on the same home directory

\* ------------------------------------------------------------- constants
NoDb == [exists |-> FALSE, tables |-> <<>>]     \* no file at DB_FILEPATH
StaleDb == [exists |-> TRUE, tables |-> <<"stale">>]
NoCol == [dtype |-> "none", vals |-> <<>>]      \* no reference_time column
NoFrame == [rows |-> 0, ref |-> NoCol]          \* frame not read yet
NoSchema == <<>>                                \* no joined.parquet

SixFolders == {"primary", "secondary", "crosswalk", "geometry", "attribute", "joined"}

TsNames == {"obs", "baseline", "sim"}

RawNames == {"gages.geojson", "baseline-crosswalk.csv", "sim-crosswalk.csv",
             "gage_attr_2yr_discharge.csv", "gage_attr_drainage_area_km2.csv",
             "gage_attr_ecoregion.csv", "obs.csv", "baseline.csv", "sim.csv"}

RawFiles == {<<"raw", n>> : n \in RawNames}

\* what the bucket may hold besides raw/ (the notebook does not control it)
RemoteExtraFiles == {<<"joined", "joined.parquet">>}

\* a cell order in which the export cell sits before insert_calculated_field
CellsExportEarly == <<"download", "mkdirs", "tree1",
           "geometry", "xw_baseline", "xw_sim", "attrs",
           "read_obs", "write_obs", "read_baseline", "write_baseline",
           "read_sim", "write_sim", "tree2",
           "create_db", "insert_joined", "insert_attrs", "export",
           "insert_month", "schema", "delete_db", "tree3",
           "jpdb", "get_joined", "plot1", "get_metrics", "plot2">>

\* the code cells of the notebook that act on files, frames or the database,
\* in document order
Cells == <<"download", "mkdirs", "tree1",
           "geometry", "xw_baseline", "xw_sim", "attrs",
           "read_obs", "write_obs", "read_baseline", "write_baseline",
           "read_sim", "write_sim", "tree2",
           "create_db", "insert_joined", "insert_attrs", "insert_month",
           "schema", "export", "delete_db", "tree3",
           "jpdb", "get_joined", "plot1", "get_metrics", "plot2">>

VARIABLES
  pc,            \* the cell to run next, or "done" / "failed"
  trace,         \* cells executed so far in this run, in order
  failedAt,      \* the cell whose Python code raised, or "none"
  shellFailed,   \* shell-escape cells whose command failed in this run
  run,           \* number of the current run
  prevOutcome,   \* how the previous run on this directory ended
  remoteExtra,   \* files of the bucket outside raw/
  remoteDb,      \* content of teehr_base/teehr.db in the bucket, or NoDb
  badSchema,     \* the input tables do not fit the join's schema
  fetched,       \* files the download of this run copied
  files,         \* files under ~/teehr/example-1 (except teehr.db)
  dirs,          \* directories under ~/teehr/example-1
  dbContent,     \* content of the file at DB_FILEPATH, or NoDb
  dbAtConstruct, \* what was at DB_FILEPATH when DuckDBDatabase() was called
  frames,        \* obs_ts, baseline_ts, sim_ts
  parquetRef,    \* reference_time column of obs/baseline/sim.parquet on disk
  joinedSchema,  \* field groups of joined/joined.parquet on disk
  written        \* Parquet files written by this run

vars == <<pc, trace, failedAt, shellFailed, run, prevOutcome, remoteExtra,
          remoteDb, badSchema, fetched, files, dirs, dbContent, dbAtConstruct,
          frames, parquetRef, joinedSchema, written>>

\* ---------------------------------------------------------------- helpers
IndexOf(s) == CHOOSE i \in 1..Len(Cells) : Cells[i] = s

NextCell(s) == IF IndexOf(s) = Len(Cells) THEN "done" ELSE Cells[IndexOf(s) + 1]

InTrace(s) == \E i \in 1..Len(trace) : trace[i] = s

FilesIn(d) == {p \in files : p[1] = d}

Remote == RawFiles \cup remoteExtra

\* the cell ran to its end: the next cell is run
Advance(s) == /\ pc' = NextCell(s)
              /\ trace' = Append(trace, s)
              /\ failedAt' = failedAt

\* a kernel that records the exception and goes on with the next cell
RaiseAndContinue(s) == /\ pc' = NextCell(s)
                   /\ trace' = Append(trace, s)
                   /\ failedAt' = s

\* the cell raised: the exception propagates and the run stops
Fail(s) == /\ pc' = "failed"
           /\ trace' = Append(trace, s)
           /\ failedAt' = s

\* ----------------------------------------------------------------- pandas
\* df[col] = None : an object column holding None in every row
NoneColumn(n) == [dtype |-> "object", vals |-> [i \in 1..n |-> "None"]]

\* a cast that leaves the column as it is
AsTypeKeep(col) == col

\* Series.astype('datetime64[ns]') : None becomes NaT

AsTypeDatetime(col) ==
  [dtype |-> "datetime64[ns]",
   vals |-> [i \in 1..Len(col.vals) |->
               IF col.vals[i] \in {"None", "NaN"} THEN "NaT" ELSE col.vals[i]]]

\* the value pandas fills in for an index label the assigned Series lacks
MissingValue(dtype) == IF dtype = "datetime64[ns]" THEN "NaT" ELSE "NaN"

\* df[col] = series : aligned on the index (both are RangeIndex from read_csv)
AssignSeries(n, ser) ==
  [dtype |-> ser.dtype,
   vals |-> [i \in 1..n |-> IF i <= Len(ser.vals) THEN ser.vals[i]
                            ELSE MissingValue(ser.dtype)]]

\* ------------------------------------------------------------------ pathlib
\* a delete that leaves the file in place
UnlinkKeep(db) == db

\* if DB_FILEPATH.is_file(): DB_FILEPATH.unlink()

UnlinkIfFile(db) == NoDb

\* DuckDBDatabase(path): opens the file, creating an empty database if absent
Connect(db) == [exists |-> TRUE, tables |-> db.tables]

\* -------------------------------------------------------------- file paths
DB_FILEPATH == <<"teehr_base", "teehr.db">>

\* an export target next to the six folders instead of inside joined/
JoinedOutsideFolder == <<"teehr_base", "joined.parquet">>

\* COPY ... TO '{JOINED_FILEPATH}/joined.parquet'
JoinedParquet == <<"joined", "joined.parquet">>

TsParquet(t) == IF t = "obs" THEN <<"primary", "obs.parquet">>
                ELSE IF t = "baseline" THEN <<"secondary", "baseline.parquet">>
                ELSE <<"secondary", "sim.parquet">>

TsCsv(t) == IF t = "obs" THEN <<"raw", "obs.csv">>
            ELSE IF t = "baseline" THEN <<"raw", "baseline.csv">>
            ELSE <<"raw", "sim.csv">>

\* (input under raw/, output folder, output file) of the conversion cells
GeometryPairs == << <<"gages.geojson", "geometry", "locations.parquet">> >>

XwBaselinePairs == << <<"baseline-crosswalk.csv", "crosswalk", "baseline-crosswalk.parquet">> >>

XwSimPairs == << <<"sim-crosswalk.csv", "crosswalk", "sim-crosswalk.parquet">> >>

AttrPairs == << <<"gage_attr_2yr_discharge.csv", "attribute", "2yr_discharge.parquet">>,
                <<"gage_attr_drainage_area_km2.csv", "attribute", "drainage_area.parquet">>,
                <<"gage_attr_ecoregion.csv", "attribute", "ecoregion.parquet">> >>

\* a download cell without the rm -rf line
RemoveTreeKeep(fs) == fs

\* rm -rf ~/teehr/example-1

RemoveTree(fs) == {}

\* what "aws s3 cp --recursive" may copy: everything, everything but a few
\* files (the command failed part-way), or nothing (the command failed)
RemoteAll == Remote \cup (IF remoteDb.exists THEN {DB_FILEPATH} ELSE {})

DownloadOutcomes ==
  {RemoteAll \ m : m \in {x \in SUBSET RemoteAll : Cardinality(x) <= MaxMissing}}
    \cup {{}}

\* ---------------------------------------------------------------- Init
Init ==
  /\ pc = "download"
  /\ trace = <<>>
  /\ failedAt = "none"
  /\ shellFailed = {}
  /\ run = 1
  /\ prevOutcome = "none"
  /\ remoteExtra \in SUBSET RemoteExtraFiles
  /\ remoteDb \in {NoDb, StaleDb}
  /\ badSchema \in BOOLEAN
  /\ fetched = {}
  /\ files = {}
  /\ dirs = {}
  /\ dbContent = NoDb
  /\ dbAtConstruct = NoDb
  /\ frames = [t \in TsNames |-> NoFrame]
  /\ parquetRef = [t \in TsNames |-> NoCol]
  /\ joinedSchema = NoSchema
  /\ written = {}

env == <<run, prevOutcome, remoteExtra, remoteDb, badSchema>>

\* ------------------------------------------------------------- the cells
\* !rm -rf ~/teehr/example-1 ; !aws s3 cp --recursive ... ~/teehr/example-1
Download ==
  /\ pc = "download"
  /\ \E got \in DownloadOutcomes :
       /\ fetched' = got
       /\ files' = (RemoveTree(files) \cup got) \ {DB_FILEPATH}
       /\ dirs' = RemoveTree(dirs) \cup {p[1] : p \in got}
                     \cup (IF got \subseteq RawFiles THEN {} ELSE {"teehr_base"})
       /\ dbContent' = IF DB_FILEPATH \in got THEN remoteDb
                       ELSE IF RemoveTree({DB_FILEPATH}) = {} THEN NoDb
                       ELSE dbContent
       /\ joinedSchema' = IF JoinedParquet \in got THEN <<"stale">>
                          ELSE IF JoinedParquet \in files' THEN joinedSchema
                          ELSE NoSchema
       /\ parquetRef' = [t \in TsNames |->
                          IF TsParquet(t) \in files' THEN parquetRef[t] ELSE NoCol]
       /\ shellFailed' = IF got = RemoteAll THEN shellFailed
                         ELSE shellFailed \cup {"download"}
  /\ Advance("download")
  /\ UNCHANGED <<env, dbAtConstruct, frames, written>>

\* the six mkdir(exist_ok=True, parents=True) calls
MkDirs ==
  /\ pc = "mkdirs"
  /\ dirs' = dirs \cup SixFolders \cup {"teehr_base"}
  /\ Advance("mkdirs")
  /\ UNCHANGED <<env, shellFailed, fetched, files, dbContent, dbAtConstruct,
                 frames, parquetRef, joinedSchema, written>>

\* !tree ~/teehr/example-1 : lists names, changes nothing
Tree(s) ==
  /\ pc = s
  /\ Advance(s)
  /\ UNCHANGED <<env, shellFailed, fetched, files, dirs, dbContent,
                 dbAtConstruct, frames, parquetRef, joinedSchema, written>>

Tree1 == Tree("tree1")

Tree2 == Tree("tree2")

Tree3 == Tree("tree3")

\* a pair converts when its input exists and its output folder exists
PairOK(pr) == <<"raw", pr[1]>> \in files /\ pr[2] \in dirs

\* number of leading pairs of the cell that convert before one raises
Converted(pairs) ==
  IF \A i \in 1..Len(pairs) : PairOK(pairs[i]) THEN Len(pairs)
  ELSE (CHOOSE i \in 1..Len(pairs) :
          /\ ~PairOK(pairs[i])
          /\ \A j \in 1..(i - 1) : PairOK(pairs[j])) - 1

\* read_file / read_csv followed by to_parquet, for each pair in turn
Convert(s, pairs) ==
  /\ pc = s
  /\ LET k == Converted(pairs)
         out == {<<pairs[i][2], pairs[i][3]>> : i \in 1..k}
     IN /\ files' = files \cup out
        /\ written' = written \cup out
        /\ IF k = Len(pairs) THEN Advance(s) ELSE Fail(s)
  /\ UNCHANGED <<env, shellFailed, fetched, dirs, dbContent, dbAtConstruct,
                 frames, parquetRef, joinedSchema>>

Geometry == Convert("geometry", GeometryPairs)

XwBaseline == Convert("xw_baseline", XwBaselinePairs)

XwSim == Convert("xw_sim", XwSimPairs)

Attrs == Convert("attrs", AttrPairs)

CellOf(t, verb) == IF verb = "read" THEN
                     (IF t = "obs" THEN "read_obs"
                      ELSE IF t = "baseline" THEN "read_baseline" ELSE "read_sim")
                   ELSE
                     (IF t = "obs" THEN "write_obs"
                      ELSE IF t = "baseline" THEN "write_baseline" ELSE "write_sim")

\* x_ts = pd.read_csv(Path(RAW_DATA_FILEPATH, "x.csv"))
ReadTs(t) ==
  /\ pc = CellOf(t, "read")
  /\ IF TsCsv(t) \in files
       THEN /\ \E n \in 0..MaxRows :
                 frames' = [frames EXCEPT ![t] = [rows |-> n, ref |-> NoCol]]
            /\ Advance(CellOf(t, "read"))
       ELSE /\ frames' = frames
            /\ Fail(CellOf(t, "read"))
  /\ UNCHANGED <<env, shellFailed, fetched, files, dirs, dbContent,
                 dbAtConstruct, parquetRef, joinedSchema, written>>

\* the Series each cell casts: obs and baseline cast their own column, the
\* sim cell casts baseline_ts['reference_time']
CastSource(t, fr) == IF t = "sim" THEN fr["baseline"].ref ELSE fr[t].ref

\* x_ts['reference_time'] = None ; x_ts['reference_time'] = <cast> ; to_parquet
WriteTs(t) ==
  /\ pc = CellOf(t, "write")
  /\ LET n == frames[t].rows
         f1 == [frames EXCEPT ![t].ref = NoneColumn(n)]
         col == AssignSeries(n, AsTypeDatetime(CastSource(t, f1)))
     IN /\ frames' = [f1 EXCEPT ![t].ref = col]
        /\ IF TsParquet(t)[1] \in dirs
             THEN /\ files' = files \cup {TsParquet(t)}
                  /\ written' = written \cup {TsParquet(t)}
                  /\ parquetRef' = [parquetRef EXCEPT ![t] = col]
                  /\ Advance(CellOf(t, "write"))
             ELSE /\ UNCHANGED <<files, written, parquetRef>>
                  /\ Fail(CellOf(t, "write"))
  /\ UNCHANGED <<env, shellFailed, fetched, dirs, dbContent, dbAtConstruct,
                 joinedSchema>>

ReadObs == ReadTs("obs")

WriteObs == WriteTs("obs")

ReadBaseline == ReadTs("baseline")

WriteBaseline == WriteTs("baseline")

ReadSim == ReadTs("sim")

WriteSim == WriteTs("sim")

\* ----------------------------------------------------- the scratch database
\* if DB_FILEPATH.is_file(): DB_FILEPATH.unlink() ; ddb = DuckDBDatabase(DB_FILEPATH)
CreateDb ==
  /\ pc = "create_db"
  /\ dbAtConstruct' = UnlinkIfFile(dbContent)
  /\ dbContent' = Connect(UnlinkIfFile(dbContent))
  /\ Advance("create_db")
  /\ UNCHANGED <<env, shellFailed, fetched, files, dirs, frames, parquetRef,
                 joinedSchema, written>>

\* as UsesDdb, with the get_joined_timeseries query sent to ddb
UsesDdbAfterDelete == {"insert_joined", "insert_attrs", "insert_month", "schema",
                "export", "get_joined"}

\* cells that call a method of ddb
UsesDdb == {"insert_joined", "insert_attrs", "insert_month", "schema", "export"}

\* folders whose Parquet files a cell reads
ParquetReads(s) ==
  IF s = "insert_joined" THEN {"primary", "secondary", "crosswalk"}
  ELSE IF s = "insert_attrs" THEN {"attribute"}
  ELSE IF s \in {"jpdb", "get_joined"} THEN {"joined"}
  ELSE IF s = "get_metrics" THEN {"joined", "geometry"}
  ELSE {}

\* the table group a ddb insert adds to joined_timeseries
Adds(s) == IF s = "insert_joined" THEN "joined_timeseries"
           ELSE IF s = "insert_attrs" THEN "attributes"
           ELSE "month"

\* ddb.insert_joined_timeseries / insert_attributes / insert_calculated_field:
\* raises when the database file is gone or the inputs do not fit the schema
DdbInsert(s) ==
  /\ pc = s
  /\ IF dbContent.exists /\ ~(s = "insert_joined" /\ badSchema)
       THEN /\ dbContent' = [dbContent EXCEPT !.tables = Append(@, Adds(s))]
            /\ Advance(s)
       ELSE /\ dbContent' = dbContent
            /\ Fail(s)
  /\ UNCHANGED <<env, shellFailed, fetched, files, dirs, dbAtConstruct, frames,
                 parquetRef, joinedSchema, written>>

InsertJoined == DdbInsert("insert_joined")

InsertAttrs == DdbInsert("insert_attrs")

InsertMonth == DdbInsert("insert_month")

\* ddb.get_joined_timeseries_schema()
Schema ==
  /\ pc = "schema"
  /\ IF dbContent.exists THEN Advance("schema") ELSE Fail("schema")
  /\ UNCHANGED <<env, shellFailed, fetched, files, dirs, dbContent,
                 dbAtConstruct, frames, parquetRef, joinedSchema, written>>

\* ddb.query("COPY (SELECT * FROM joined_timeseries ...) TO joined.parquet")
Export ==
  /\ pc = "export"
  /\ IF dbContent.exists /\ JoinedParquet[1] \in dirs
       THEN /\ files' = files \cup {JoinedParquet}
            /\ written' = written \cup {JoinedParquet}
            /\ joinedSchema' = dbContent.tables
            /\ Advance("export")
       ELSE /\ UNCHANGED <<files, written, joinedSchema>>
            /\ Fail("export")
  /\ UNCHANGED <<env, shellFailed, fetched, dirs, dbContent, dbAtConstruct,
                 frames, parquetRef>>

\* if DB_FILEPATH.is_file(): DB_FILEPATH.unlink()
DeleteDb ==
  /\ pc = "delete_db"
  /\ dbContent' = UnlinkIfFile(dbContent)
  /\ Advance("delete_db")
  /\ UNCHANGED <<env, shellFailed, fetched, files, dirs, dbAtConstruct, frames,
                 parquetRef, joinedSchema, written>>

\* ------------------------------------------------- queries on the Parquet files
\* DuckDBJoinedParquet(...), get_joined_timeseries, get_metrics: raise when a
\* folder they read holds no Parquet file; a cell that calls ddb raises when
\* the database file is gone
Query(s) ==
  /\ pc = s
  /\ IF /\ \A d \in ParquetReads(s) : FilesIn(d) # {}
        /\ s \in UsesDdb => dbContent.exists
       THEN Advance(s) ELSE Fail(s)
  /\ UNCHANGED <<env, shellFailed, fetched, files, dirs, dbContent,
                 dbAtConstruct, frames, parquetRef, joinedSchema, written>>

Jpdb == Query("jpdb")

GetJoined == Query("get_joined")

GetMetrics == Query("get_metrics")

\* the hvplot cells work on frames in memory
Plot(s) ==
  /\ pc = s
  /\ Advance(s)
  /\ UNCHANGED <<env, shellFailed, fetched, files, dirs, dbContent,
                 dbAtConstruct, frames, parquetRef, joinedSchema, written>>

Plot1 == Plot("plot1")

Plot2 == Plot("plot2")

\* the notebook is run again on the same home directory with a fresh kernel
NewRun ==
  /\ pc \in {"done", "failed"}
  /\ run < MaxRuns
  /\ run' = run + 1
  /\ prevOutcome' = pc
  /\ pc' = Cells[1]
  /\ trace' = <<>>
  /\ failedAt' = "none"
  /\ shellFailed' = {}
  /\ fetched' = {}
  /\ dbAtConstruct' = NoDb
  /\ frames' = [t \in TsNames |-> NoFrame]
  /\ written' = {}
  /\ UNCHANGED <<remoteExtra, remoteDb, badSchema, files, dirs, dbContent,
                 parquetRef, joinedSchema>>

Next ==
  \/ Download \/ MkDirs \/ Tree1
  \/ Geometry \/ XwBaseline \/ XwSim \/ Attrs
  \/ ReadObs \/ WriteObs \/ ReadBaseline \/ WriteBaseline
  \/ ReadSim \/ WriteSim \/ Tree2
  \/ CreateDb \/ InsertJoined \/ InsertAttrs \/ InsertMonth
  \/ Schema \/ Export \/ DeleteDb \/ Tree3
  \/ Jpdb \/ GetJoined \/ Plot1 \/ GetMetrics \/ Plot2
  \/ NewRun

Spec == Init /\ [][Next]_vars

TypeOK ==
  /\ pc \in {Cells[i] : i \in 1..Len(Cells)} \cup {"done", "failed"}
  /\ run \in 1..MaxRuns
  /\ dirs \subseteq SixFolders \cup {"raw", "teehr_base"}
  /\ dbContent.exists \in BOOLEAN
  /\ \A t \in TsNames : frames[t].rows \in 0..MaxRows

\* ------------------------------------------------------------ properties
Pos(s) == CHOOSE i \in 1..Len(trace) : trace[i] = s

Last(q) == q[Len(q)]

NoRepeat(q) == \A i, j \in 1..Len(q) : q[i] = q[j] => i = j

RemoteOnlyRaw == remoteExtra = {} /\ ~remoteDb.exists

AllNaT(col) == /\ col.dtype = "datetime64[ns]"
               /\ \A i \in 1..Len(col.vals) : col.vals[i] = "NaT"

C2_SixFoldersPopulated ==
  /\ pc = "done" => \A d \in SixFolders : d \in dirs /\ FilesIn(d) # {}
  /\ \A p \in written : p[1] \in SixFolders

C2_Witness == pc = "done" /\ Cardinality(written) = 10

\* C3: when joined.parquet has been exported, insert_joined_timeseries,
\* insert_attributes and insert_calculated_field ran before it in that order,
\* the database file was not yet deleted, and the exported table carries the
\* attributes and the month field.
C3_ExportAfterInserts ==
  InTrace("export") =>
    /\ InTrace("insert_joined") /\ InTrace("insert_attrs") /\ InTrace("insert_month")
    /\ Pos("insert_joined") < Pos("insert_attrs")
    /\ Pos("insert_attrs") < Pos("insert_month")
    /\ Pos("insert_month") < Pos("export")
    /\ InTrace("delete_db") => Pos("export") < Pos("delete_db")
    /\ failedAt # "export"
    /\ joinedSchema = <<"joined_timeseries", "attributes", "month">>

C3_Witness == InTrace("export") /\ InTrace("delete_db") /\ DB_FILEPATH \in fetched

\* C4 (as stated): a failure in any step, shell steps included, is the last step
\* the run executes.
C4_AnyFailureStopsRun ==
  \A i \in 1..Len(trace) :
    trace[i] \in shellFailed \cup {failedAt} => i = Len(trace)

\* C4 (amended): when the Python code of a cell raises, that cell is the last
\* one the run executes, it has run once, and the files written by earlier
\* cells keep their place and content.
C4_RaiseStopsRun ==
  [][failedAt' # "none" =>
       /\ pc' = "failed"
       /\ Last(trace') = failedAt'
       /\ NoRepeat(trace')
       /\ failedAt = "none" =>
            /\ written \subseteq files'
            /\ \A t \in TsNames : TsParquet(t) \in written => parquetRef'[t] = parquetRef[t]
            /\ JoinedParquet \in written => joinedSchema' = joinedSchema
            /\ dbContent' = dbContent]_vars

C4_Witness == pc = "failed" /\ failedAt = "insert_joined" /\ Cardinality(written) = 9

\* C5: at the first tree listing, when the bucket holds only raw/, the raw folder
\* holds exactly the files this run downloaded and the six folders exist and are
\* empty, whatever an earlier run left behind.
C5_FirstListing ==
  (pc = "tree1" /\ RemoteOnlyRaw) =>
    /\ files = fetched
    /\ FilesIn("raw") = fetched
    /\ \A d \in SixFolders : d \in dirs /\ FilesIn(d) = {}
    /\ ~dbContent.exists

C5_Witness == pc = "tree1" /\ RemoteOnlyRaw /\ prevOutcome = "done" /\ fetched = RawFiles

C5_WitnessPartial == pc = "tree1" /\ RemoteOnlyRaw /\ prevOutcome = "failed"

SecondListingOK ==
  pc = "tree2" =>
    \A d \in SixFolders \ {"joined"} : FilesIn(d) # {}

\* C6 (as stated): the joined folder holds no Parquet file at any point of a run
\* before the export step, the other five folders are non-empty at the second
\* listing, and the joined folder is non-empty at every point after the export.
C6_JoinedEmptyBeforeExport ==
  /\ ~InTrace("export") => FilesIn("joined") = {}
  /\ SecondListingOK
  /\ InTrace("export") => FilesIn("joined") # {}

\* C6 (amended): when the bucket holds no file under joined/, the joined folder
\* holds no Parquet file at any point after the download step and before the
\* export step; the other five folders are non-empty at the second listing; the
\* joined folder is non-empty at every point of the run after the export step.
C6_JoinedEmptyAfterDownload ==
  /\ (InTrace("download") /\ ~InTrace("export")
        /\ \A p \in remoteExtra : p[1] # "joined") => FilesIn("joined") = {}
  /\ SecondListingOK
  /\ InTrace("export") => FilesIn("joined") # {}

C6_Witness == pc = "tree2" /\ prevOutcome = "done" /\ remoteExtra = {}

\* C7: the reference_time column written to obs.parquet, baseline.parquet and
\* sim.parquet has dtype datetime64[ns], one value per row of the frame, and NaT
\* in every row, for every combination of row counts.
C7_ReferenceTimeNull ==
  \A t \in TsNames :
    TsParquet(t) \in written =>
      /\ AllNaT(parquetRef[t])
      /\ Len(parquetRef[t].vals) = frames[t].rows

C7_Witness == /\ TsParquet("sim") \in written
              /\ frames["sim"].rows > frames["baseline"].rows
              /\ frames["obs"].rows > 0

\* C8: when DuckDBDatabase(DB_FILEPATH) is constructed no file exists at
\* DB_FILEPATH, and insert_joined_timeseries starts on an empty database.
C8_FreshDatabase ==
  /\ InTrace("create_db") => ~dbAtConstruct.exists
  /\ pc = "insert_joined" => dbContent = [exists |-> TRUE, tables |-> <<>>]

C8_Witness == pc = "insert_joined" /\ DB_FILEPATH \in fetched

\* C9: no cell executed after the deletion of the database file calls ddb, and
\* every such cell reads Parquet files of the joined and geometry folders only.
C9_NoDdbAfterDelete ==
  \A i, j \in 1..Len(trace) :
    (trace[i] = "delete_db" /\ i < j) =>
      /\ trace[j] \notin UsesDdb
      /\ ParquetReads(trace[j]) \subseteq {"joined", "geometry"}

C9_Witness == pc = "done" /\ InTrace("delete_db") /\ InTrace("get_metrics")

====
